---- MODULE Spec2Model ----
(***************************************************************************)
(* Model of mov-to-mp4.py: the VideoConverter GUI (binary probe, optional  *)
(* automatic install, file selection, start_conversion, the background     *)
(* conversion_worker) and the command line front end.                      *)
(*                                                                         *)
(* Paths are sequences of one-character strings so that os.path.basename,  *)
(* dirname, splitext and join can be computed the way posixpath computes   *)
(* them.  An empty sequence stands for "" and for None where the code only *)
(* tests truthiness.                                                       *)
(***************************************************************************)
EXTENDS Integers, Sequences, FiniteSets, TLC

VARIABLES
    path,                    \* output path derivation: inputs and results
    loc,                     \* binary locator: probe outcomes and result
    conv,                    \* one convert_video call: inputs and result
    app,                     \* phase of the GUI application
    ffmpeg_path,             \* self.ffmpeg_path
    selected_files,          \* self.selected_files
    output_directory,        \* self.output_directory
    quality_var,             \* self.quality_var
    conversion_in_progress,  \* self.conversion_in_progress
    convert_button,          \* state of self.convert_button
    progress_var,            \* self.progress_var
    notice,                  \* last message box raised by a GUI handler
    threads,                 \* the live conversion_worker threads, oldest first
    recording                \* whether each batch's request and commands are kept

guiVars == <<app, ffmpeg_path, selected_files, output_directory, quality_var,
             conversion_in_progress, convert_button, progress_var, notice,
             threads>>

vars == <<path, loc, conv, app, ffmpeg_path, selected_files, output_directory,
          quality_var, conversion_in_progress, convert_button, progress_var,
          notice, threads, recording>>

None == "None"

---------------------------------------------------------------------------
(* Bounds of the model *)

\* longest generated file stem, in characters
MaxStemLen == 2

\* most candidates of the probe list that exist on the machine
MaxPresent == 3

\* number of files the file dialog offers
NumFiles == 2

\* most conversion_worker threads alive at once
MaxThreads == 2

---------------------------------------------------------------------------
(* String helpers: str.rfind, slicing, rstrip *)

RECURSIVE rfind(_, _, _)
\* s.rfind(c) over positions 1..n, as a 1-based index; 0 when absent.
rfind(s, c, n) ==
    IF n = 0 THEN 0
    ELSE IF s[n] = c THEN n
    ELSE rfind(s, c, n - 1)

Slice(s, from, to) == [k \in 1..(to - from + 1) |-> s[from + k - 1]]

Prefix(s, n) == Slice(s, 1, n)

Suffix(s, from) == Slice(s, from, Len(s))

AllAre(s, c) == \A k \in 1..Len(s) : s[k] = c

RECURSIVE rstrip(_, _)
rstrip(s, c) ==
    IF Len(s) > 0 /\ s[Len(s)] = c THEN rstrip(Prefix(s, Len(s) - 1), c)
    ELSE s

---------------------------------------------------------------------------
(* os.path on a POSIX platform *)

basename(p) == Suffix(p, rfind(p, "/", Len(p)) + 1)

dirname(p) ==
    LET head == Prefix(p, rfind(p, "/", Len(p)))
    IN  IF head # <<>> /\ ~AllAre(head, "/") THEN rstrip(head, "/") ELSE head

\* genericpath._splitext: the extension starts at the last dot after the
\* last separator, unless only dots precede it in the file name.
splitext(p) ==
    LET sepIndex == rfind(p, "/", Len(p))
        dotIndex == rfind(p, ".", Len(p))
    IN  IF /\ dotIndex > sepIndex
           /\ \E k \in (sepIndex + 1)..(dotIndex - 1) : p[k] # "."
        THEN <<Prefix(p, dotIndex - 1), Suffix(p, dotIndex)>>
        ELSE <<p, <<>>>>

join(a, b) ==
    IF Len(b) > 0 /\ b[1] = "/" THEN b
    ELSE IF a = <<>> \/ a[Len(a)] = "/" THEN a \o b
    ELSE a \o <<"/">> \o b

DotMp4 == <<".", "m", "p", "4">>

---------------------------------------------------------------------------
(* Output path derivation *)

\* A plausible slip: the output keeps the input's own extension.
OutputPathKeepsExt(input_path, directory) ==
    LET file_name == basename(input_path)
        output_dir == IF directory # <<>> THEN directory
                      ELSE dirname(input_path)
    IN  join(output_dir, file_name)

\* conversion_worker, lines 373-381
OutputPath(input_path, directory) ==
    LET file_name == basename(input_path)
        output_dir == IF directory # <<>> THEN directory
                      ELSE dirname(input_path)
        input_name == splitext(file_name)[1]
    IN  join(output_dir, input_name \o DotMp4)

\* command_line_converter, lines 481-484
CliOutputPath(input_file, output_dir) ==
    IF output_dir # <<>>
    THEN join(output_dir, splitext(basename(input_file))[1] \o DotMp4)
    ELSE splitext(input_file)[1] \o DotMp4

---------------------------------------------------------------------------
(* Binary locator *)

\* check_ffmpeg, lines 222-232
ffmpeg_paths ==
    << "ffmpeg",
       "<script_dir>/ffmpeg/ffmpeg.exe",
       "<script_dir>/ffmpeg/ffmpeg",
       "C:\\ProgramData\\chocolatey\\lib\\ffmpeg-full\\tools\\ffmpeg\\bin\\ffmpeg.exe",
       "C:\\ProgramData\\chocolatey\\lib\\ffmpeg\\tools\\ffmpeg\\bin\\ffmpeg.exe",
       "C:\\ffmpeg\\bin\\ffmpeg.exe",
       "/usr/local/bin/ffmpeg",
       "/opt/homebrew/bin/ffmpeg",
       "/usr/bin/ffmpeg" >>

\* command_line_converter, lines 442-451
cli_ffmpeg_paths ==
    << "ffmpeg",
       "<script_dir>/ffmpeg/ffmpeg.exe",
       "<script_dir>/ffmpeg/ffmpeg",
       "C:\\ProgramData\\chocolatey\\lib\\ffmpeg-full\\tools\\ffmpeg\\bin\\ffmpeg.exe",
       "C:\\ProgramData\\chocolatey\\lib\\ffmpeg\\tools\\ffmpeg\\bin\\ffmpeg.exe",
       "/usr/local/bin/ffmpeg",
       "/opt/homebrew/bin/ffmpeg",
       "/usr/bin/ffmpeg" >>

Candidates == {ffmpeg_paths[k] : k \in 1..Len(ffmpeg_paths)}

\* How subprocess.run([path, "-version"], check=True) can end.
ProbeOutcomes == {"ok", "CalledProcessError", "FileNotFoundError", "PermissionError"}

\* except (subprocess.CalledProcessError, FileNotFoundError): continue
ProbeCaught(kind) == kind \in {"CalledProcessError", "FileNotFoundError"}

RECURSIVE ProbeNoReturn(_, _, _, _)
\* A plausible slip: no return after a successful probe, so the loop goes on
\* and the last working candidate wins.
ProbeNoReturn(paths, run, k, found) ==
    IF k > Len(paths) THEN [path |-> found, raised |-> FALSE]
    ELSE IF run[paths[k]] = "ok" THEN ProbeNoReturn(paths, run, k + 1, paths[k])
    ELSE IF ProbeCaught(run[paths[k]]) THEN ProbeNoReturn(paths, run, k + 1, found)
    ELSE [path |-> found, raised |-> TRUE]

RECURSIVE Probe(_, _, _, _)
\* The probe loop from candidate k on; found is the path assigned so far.
\* An error the except clause does not name leaves the loop by raising.
Probe(paths, run, k, found) ==
    IF k > Len(paths) THEN [path |-> found, raised |-> FALSE]
    ELSE IF run[paths[k]] = "ok" THEN [path |-> paths[k], raised |-> FALSE]
    ELSE IF ProbeCaught(run[paths[k]]) THEN Probe(paths, run, k + 1, found)
    ELSE [path |-> found, raised |-> TRUE]

---------------------------------------------------------------------------
(* Single-file converter *)

\* get_ffmpeg_params, lines 317-325
get_ffmpeg_params(quality) ==
    CASE quality = "high" ->
            <<"-c:v", "libx264", "-crf", "18", "-c:a", "aac", "-b:a", "192k">>
      [] quality = "low" ->
            <<"-c:v", "libx264", "-crf", "28", "-c:a", "aac", "-b:a", "96k">>
      [] quality = "custom" ->
            <<"-c:v", "libx264", "-crf", "20", "-c:a", "copy">>
      [] OTHER ->
            <<"-c:v", "libx264", "-crf", "23", "-c:a", "aac", "-b:a", "128k">>

\* Errors that derive from Exception; KeyboardInterrupt and SystemExit do not.
IsException(kind) ==
    kind \in {"FileNotFoundError", "PermissionError", "OSError", "TypeError"}

\* str(e) of a launch error
StrOf(kind) ==
    CASE kind = "FileNotFoundError" -> "[Errno 2] No such file or directory"
      [] kind = "PermissionError" -> "[Errno 13] Permission denied"
      [] kind = "TypeError" -> "expected str, bytes or os.PathLike object, not NoneType"
      [] OTHER -> "[Errno 8] Exec format error"

\* What Popen and communicate do with the command: a None executable makes
\* Popen raise TypeError before anything is launched.
Launch(cmd, run) ==
    IF cmd[1] = None THEN [kind |-> "TypeError", returncode |-> 0, stderr |-> ""]
    ELSE run

\* A plausible slip: only a missing executable is caught.
convert_video_narrow_except(exe, input_path, output_path, quality, run) ==
    LET cmd == <<exe, "-i", input_path>> \o get_ffmpeg_params(quality)
                   \o <<"-y", output_path>>
        end == Launch(cmd, run)
    IN  IF end.kind = "exit"
        THEN IF end.returncode = 0
             THEN [raised |-> FALSE, success |-> TRUE, message |-> "Success", cmd |-> cmd]
             ELSE [raised |-> FALSE, success |-> FALSE, message |-> end.stderr, cmd |-> cmd]
        ELSE IF end.kind = "FileNotFoundError"
             THEN [raised |-> FALSE, success |-> FALSE, message |-> StrOf(end.kind), cmd |-> cmd]
             ELSE [raised |-> TRUE, success |-> FALSE, message |-> "", cmd |-> cmd]

\* convert_video, lines 327-343; exe is self.ffmpeg_path
convert_video(exe, input_path, output_path, quality, run) ==
    LET cmd == <<exe, "-i", input_path>> \o get_ffmpeg_params(quality)
                   \o <<"-y", output_path>>
        end == Launch(cmd, run)
    IN  IF end.kind = "exit"
        THEN IF end.returncode = 0
             THEN [raised |-> FALSE, success |-> TRUE, message |-> "Success", cmd |-> cmd]
             ELSE [raised |-> FALSE, success |-> FALSE, message |-> end.stderr, cmd |-> cmd]
        ELSE IF IsException(end.kind)
             THEN [raised |-> FALSE, success |-> FALSE, message |-> StrOf(end.kind), cmd |-> cmd]
             ELSE [raised |-> TRUE, success |-> FALSE, message |-> "", cmd |-> cmd]

---------------------------------------------------------------------------
(* State after VideoConverter.__init__ has set its fields (lines 23-25, 70,
   76) and before check_ffmpeg runs *)

\* the request no handler has made yet
NoRequest == [files |-> <<>>, quality |-> "", output_directory |-> <<>>]

\* a thread that has just been started on conversion_worker; request is a
\* record of what the window showed when Convert was pressed, which the
\* thread itself is not given (line 358 passes no arguments)
NewThread ==
    [pc |-> "l364", total_files |-> 0, files |-> <<>>, i |-> 0,
     successful_conversions |-> 0, failed_conversions |-> <<>>,
     log |-> <<>>, emitted |-> <<>>, request |-> NoRequest]

Zero == <<0, 1>>

GuiInit ==
    /\ app = "init"
    /\ ffmpeg_path = None
    /\ selected_files = <<>>
    /\ output_directory = <<>>
    /\ quality_var = "high"
    /\ conversion_in_progress = FALSE
    /\ convert_button = "normal"
    /\ progress_var = Zero
    /\ notice = "none"
    /\ threads = <<>>

Idle == [pc |-> "idle"]

---------------------------------------------------------------------------
(* Output path derivation applied to generated inputs *)

StemChars == {"c", "."}

Clip == <<"c", "l", "i", "p">>

\* A stem has a character that is not a dot: a name of dots only, or a
\* leading-dot name without a later dot, has no extension to os.path.
Stems ==
    {s \in UNION {[1..n -> StemChars] : n \in 1..MaxStemLen} :
        \E k \in 1..Len(s) : s[k] # "."} \cup {Clip}

\* the dot and the extension, in several letter cases; <<>> is no extension
Suffixes ==
    { <<>>, <<".">>, <<".", "m", "o", "v">>, <<".", "M", "O", "V">>,
      <<".", "M", "o", "v">>, <<".", "m", "p", "4">>, <<".", "A", "V", "I">> }

Dirs ==
    { <<>>, <<"/">>, <<"a">>, <<"/", "a">>, <<"/", "a", "/", "b">>,
      <<"/", "a", ".", "b">> }

Overrides == { <<>>, <<"/", "o", "u", "t">>, <<"/", "o", "u", "t", "/">>, <<"o">> }

\* Without a suffix the stem must not itself end in something os.path reads
\* as an extension.
NoInnerDot(s) == \A k \in 1..Len(s) : s[k] = "." => \A j \in 1..k : s[j] = "."

\* name placed in directory d
Place(d, name) ==
    IF d = <<>> THEN name
    ELSE IF d[Len(d)] = "/" THEN d \o name
    ELSE d \o <<"/">> \o name

PathInputs ==
    {[pc |-> "input", dir |-> d, stem |-> s, suffix |-> x, override |-> o,
      gui |-> <<>>, cli |-> <<>>] :
        d \in Dirs, s \in Stems, x \in Suffixes, o \in Overrides}

InputPathOf(c) == Place(c.dir, c.stem \o c.suffix)

PathInit ==
    /\ path \in {c \in PathInputs : c.suffix = <<>> => NoInnerDot(c.stem)}
    /\ loc = Idle
    /\ conv = Idle
    /\ GuiInit
    /\ recording = FALSE

DerivePaths ==
    /\ path.pc = "input"
    /\ path' = [path EXCEPT !.pc = "derived",
                            !.gui = OutputPath(InputPathOf(path), path.override),
                            !.cli = CliOutputPath(InputPathOf(path), path.override)]
    /\ UNCHANGED <<recording, loc, conv, guiVars>>

SpecPath == PathInit /\ [][DerivePaths]_vars

---------------------------------------------------------------------------
(* The two probe loops applied to generated machines *)

PresentOutcomes == ProbeOutcomes \ {"FileNotFoundError"}

\* The candidates in S end as f says; every other candidate does not exist.
RunOf(S, f) == [c \in Candidates |-> IF c \in S THEN f[c] ELSE "FileNotFoundError"]

Runs ==
    UNION {{RunOf(S, f) : f \in [S -> PresentOutcomes]} :
              S \in {T \in SUBSET Candidates : Cardinality(T) <= MaxPresent}}

\* check_ffmpeg, lines 234-243
check_ffmpeg_probe(run) == Probe(ffmpeg_paths, run, 1, None)

\* command_line_converter, lines 453-461
cli_probe(run) == Probe(cli_ffmpeg_paths, run, 1, None)

LocInit ==
    /\ loc \in {[pc |-> "input", run |-> r, front |-> "none", path |-> None,
                  raised |-> FALSE] : r \in Runs}
    /\ path = Idle
    /\ conv = Idle
    /\ GuiInit
    /\ recording = FALSE

GuiLocate ==
    /\ loc.pc = "input"
    /\ loc' = [loc EXCEPT !.pc = "probed", !.front = "gui",
                          !.path = check_ffmpeg_probe(loc.run).path,
                          !.raised = check_ffmpeg_probe(loc.run).raised]
    /\ UNCHANGED <<recording, path, conv, guiVars>>

CliLocate ==
    /\ loc.pc = "input"
    /\ loc' = [loc EXCEPT !.pc = "probed", !.front = "cli",
                          !.path = cli_probe(loc.run).path,
                          !.raised = cli_probe(loc.run).raised]
    /\ UNCHANGED <<recording, path, conv, guiVars>>

SpecLocate == LocInit /\ [][GuiLocate \/ CliLocate]_vars

---------------------------------------------------------------------------
(* convert_video applied to every way an invocation can end *)

FileNames == <<"a", "b", "c", "d", "e">>

\* the k-th file the dialog offers
FilePath(k) ==
    <<"/", "v", "/", FileNames[k]>> \o
        (IF k % 2 = 1 THEN <<".", "m", "o", "v">> ELSE <<".", "M", "O", "V">>)

ExitRuns ==
    {[kind |-> "exit", returncode |-> rc, stderr |-> e] :
        rc \in {0, 1, 255},
        e \in {"", "Invalid data found when processing input"}}

LaunchFailures ==
    {[kind |-> k, returncode |-> 0, stderr |-> ""] :
        k \in {"FileNotFoundError", "PermissionError", "OSError"}}

ConvInit ==
    /\ conv \in {[pc |-> "call", exe |-> e, input |-> FilePath(k),
                   quality |-> q, run |-> r,
                   result |-> [raised |-> FALSE, success |-> FALSE,
                               message |-> "", cmd |-> <<>>]] :
                     e \in {None, "ffmpeg"}, k \in 1..2,
                     q \in {"high", "medium", "low", "custom", "ultra"},
                     r \in ExitRuns \cup LaunchFailures}
    /\ path = Idle
    /\ loc = Idle
    /\ GuiInit
    /\ recording = FALSE

CallConvertVideo ==
    /\ conv.pc = "call"
    /\ conv' = [conv EXCEPT !.pc = "returned",
                            !.result = convert_video(conv.exe, conv.input,
                                           OutputPath(conv.input, <<>>),
                                           conv.quality, conv.run)]
    /\ UNCHANGED <<recording, path, loc, guiVars>>

SpecConvert == ConvInit /\ [][CallConvertVideo]_vars

---------------------------------------------------------------------------
(* The GUI application: construction, automatic install, the handlers of the
   interactive thread and the steps of the conversion_worker threads.

   The interactive thread runs one handler at a time, so a handler is one
   action.  A worker thread can be preempted between any two statements; its
   steps are cut at its reads and writes of the fields it shares with the
   interactive thread. *)

\* the files the dialog lists, in its order
Listing == [k \in 1..NumFiles |-> FilePath(k)]

\* what filedialog.askopenfilenames can return: the first n files of the
\* listing; <<>> is a cancelled dialog
Selections == {Prefix(Listing, n) : n \in 0..NumFiles}

\* what filedialog.askdirectory can return; <<>> is a cancelled dialog
DirectoryChoices == { <<>>, <<"/", "o", "u", "t">> }

\* entries of the quality combobox the user picks from (line 72)
QualityChoices == {"high", "custom"}

Systems == {"linux", "freebsd"}

\* machines the application starts on: no binary anywhere, a binary on the
\* search path, a bundled file that may not be executed
StartupRuns ==
    { RunOf({}, <<>>),
      RunOf({"ffmpeg"}, [c \in {"ffmpeg"} |-> "ok"]),
      RunOf({"<script_dir>/ffmpeg/ffmpeg"},
            [c \in {"<script_dir>/ffmpeg/ffmpeg"} |-> "PermissionError"]) }

\* how ffmpeg ends on one file once it has been launched
BatchRuns ==
    { [kind |-> "exit", returncode |-> 0, stderr |-> ""],
      [kind |-> "exit", returncode |-> 1,
       stderr |-> "Invalid data found when processing input"] }

\* get_install_command, lines 98-123: the systems with an install command
get_install_command(system) == system \in {"windows", "darwin", "linux"}

\* install_ffmpeg_automatically, lines 138-198: TRUE when the install thread
\* has been started behind a progress window that grabs the input
install_ffmpeg_automatically(system, manager_ok, confirmed) ==
    /\ get_install_command(system)
    /\ manager_ok
    /\ confirmed

\* the same machines once the constructor has got past its probe: the
\* bundled file did not stop it
RecheckRuns == {run \in StartupRuns : ~Probe(ffmpeg_paths, run, 1, None).raised}

\* check_ffmpeg, lines 216-262.  An error the probe loop does not catch
\* leaves check_ffmpeg and __init__ with it: the program ends.  Without a
\* binary the user is asked; unless an install is started the instructions
\* are shown and root.quit() halts the application.
check_ffmpeg(run, accepted, system, manager_ok, confirmed) ==
    LET r == check_ffmpeg_probe(run)
    IN  /\ ffmpeg_path' = r.path
        /\ app' = IF r.raised THEN "halted"
                  ELSE IF r.path # None THEN "mainloop"
                  ELSE IF accepted /\ install_ffmpeg_automatically(system, manager_ok, confirmed)
                       THEN "installing"
                  ELSE "halted"

\* __init__, line 28
Construct ==
    /\ app = "init"
    /\ \E run \in StartupRuns, accepted \in BOOLEAN, system \in Systems,
          manager_ok \in BOOLEAN, confirmed \in BOOLEAN :
            check_ffmpeg(run, accepted, system, manager_ok, confirmed)
    /\ UNCHANGED <<recording, path, loc, conv, selected_files, output_directory, quality_var,
                   conversion_in_progress, convert_button, progress_var, notice,
                   threads>>

\* install_worker succeeds and installation_complete(True) runs, lines 187,
\* 200-209
InstallationSucceeds ==
    /\ app = "installing"
    /\ \E run \in RecheckRuns, accepted \in BOOLEAN, system \in Systems,
          manager_ok \in BOOLEAN, confirmed \in BOOLEAN :
            check_ffmpeg(run, accepted, system, manager_ok, confirmed)
    /\ UNCHANGED <<recording, path, loc, conv, selected_files, output_directory, quality_var,
                   conversion_in_progress, convert_button, progress_var, notice,
                   threads>>

\* install_worker fails and installation_complete(False) runs, lines 188-191,
\* 210-214: the progress window is destroyed, an error is shown, nothing else
InstallationFails ==
    /\ app = "installing"
    /\ app' = "mainloop"
    /\ UNCHANGED <<recording, path, loc, conv, ffmpeg_path, selected_files, output_directory,
                   quality_var, conversion_in_progress, convert_button,
                   progress_var, notice, threads>>

\* select_files, lines 279-292
select_files ==
    /\ app = "mainloop"
    /\ \E file_paths \in Selections :
          selected_files' = IF file_paths # <<>> THEN file_paths ELSE selected_files
    /\ UNCHANGED <<recording, path, loc, conv, app, ffmpeg_path, output_directory, quality_var,
                   conversion_in_progress, convert_button, progress_var, notice,
                   threads>>

\* A plausible slip: clearing the list also puts the progress bar back to 0.
clear_files_resets_progress ==
    /\ app = "mainloop"
    /\ selected_files' = <<>>
    /\ progress_var' = Zero
    /\ UNCHANGED <<recording, path, loc, conv, app, ffmpeg_path, output_directory, quality_var,
                   conversion_in_progress, convert_button, notice, threads>>

\* clear_files, lines 294-297
clear_files ==
    /\ app = "mainloop"
    /\ selected_files' = <<>>
    /\ UNCHANGED <<recording, path, loc, conv, app, ffmpeg_path, output_directory, quality_var,
                   conversion_in_progress, convert_button, progress_var, notice,
                   threads>>

\* select_output_dir, lines 307-315
select_output_dir ==
    /\ app = "mainloop"
    /\ \E directory \in DirectoryChoices :
          output_directory' = IF directory # <<>> THEN directory ELSE <<>>
    /\ UNCHANGED <<recording, path, loc, conv, app, ffmpeg_path, selected_files, quality_var,
                   conversion_in_progress, convert_button, progress_var, notice,
                   threads>>

\* the quality combobox bound to quality_var, lines 70-72
choose_quality ==
    /\ app = "mainloop"
    /\ \E q \in QualityChoices : quality_var' = q
    /\ UNCHANGED <<recording, path, loc, conv, app, ffmpeg_path, selected_files,
                   output_directory, conversion_in_progress, convert_button,
                   progress_var, notice, threads>>

\* the live threads without thread t, which has ended
Ended(t) == SubSeq(threads, 1, t - 1) \o SubSeq(threads, t + 1, Len(threads))

\* what the window shows: the files, the quality and the output directory a
\* press of Convert asks for
Request ==
    [files |-> selected_files, quality |-> quality_var,
     output_directory |-> output_directory]

\* A plausible slip: the check of conversion_in_progress is missing.
start_conversion_unguarded ==
    /\ app = "mainloop"
    /\ IF selected_files = <<>>
       THEN /\ notice' = "No Files Selected"
            /\ UNCHANGED <<conversion_in_progress, convert_button, threads>>
       ELSE /\ Len(threads) < MaxThreads
            /\ threads' = Append(threads, [NewThread EXCEPT !.request =
                                  IF recording THEN Request ELSE NoRequest])
            /\ conversion_in_progress' = TRUE
            /\ convert_button' = "disabled"
            /\ UNCHANGED notice
    /\ UNCHANGED <<recording, path, loc, conv, app, ffmpeg_path, selected_files,
                   output_directory, quality_var, progress_var>>

\* start_conversion, lines 345-360.  It is taken as callable at any time:
\* its own check of conversion_in_progress expects calls during a batch.
start_conversion ==
    /\ app = "mainloop"
    /\ IF selected_files = <<>>
       THEN /\ notice' = "No Files Selected"
            /\ UNCHANGED <<conversion_in_progress, convert_button, threads>>
       ELSE IF conversion_in_progress
       THEN /\ notice' = "Conversion In Progress"
            /\ UNCHANGED <<conversion_in_progress, convert_button, threads>>
       ELSE /\ Len(threads) < MaxThreads
            /\ threads' = Append(threads, [NewThread EXCEPT !.request =
                                  IF recording THEN Request ELSE NoRequest])
            /\ conversion_in_progress' = TRUE
            /\ convert_button' = "disabled"
            /\ UNCHANGED notice
    /\ UNCHANGED <<recording, path, loc, conv, app, ffmpeg_path, selected_files,
                   output_directory, quality_var, progress_var>>

\* conversion_worker, lines 364-366
Worker364(t) ==
    /\ t \in 1..Len(threads)
    /\ threads[t].pc = "l364"
    /\ threads' = [threads EXCEPT ![t].total_files = Len(selected_files),
                                  ![t].pc = "l368"]
    /\ UNCHANGED <<recording, path, loc, conv, app, ffmpeg_path, selected_files,
                   output_directory, quality_var, conversion_in_progress,
                   convert_button, progress_var, notice>>

\* conversion_worker, line 368: the loop binds the list selected_files names
\* now; an empty list goes straight to the summary
Worker368(t) ==
    /\ t \in 1..Len(threads)
    /\ threads[t].pc = "l368"
    /\ threads' = [threads EXCEPT ![t].files = selected_files,
                                  ![t].pc = IF selected_files = <<>> THEN "l405"
                                            ELSE "loop"]
    /\ UNCHANGED <<recording, path, loc, conv, app, ffmpeg_path, selected_files,
                   output_directory, quality_var, conversion_in_progress,
                   convert_button, progress_var, notice>>

\* conversion_worker, lines 370-389: one file converted and recorded
Converted(w, run) ==
    LET input_path == w.files[w.i + 1]
        file_name == basename(input_path)
        output_path == OutputPath(input_path, output_directory)
        r == convert_video(ffmpeg_path, input_path, output_path, quality_var, run)
    IN  [w EXCEPT
            !.successful_conversions = IF r.success THEN @ + 1 ELSE @,
            !.failed_conversions = IF r.success THEN @
                                   ELSE Append(@, <<file_name, r.message>>),
            !.log = Append(@, [input |-> input_path, success |-> r.success,
                               message |-> r.message,
                               cmd |-> IF recording THEN r.cmd ELSE <<>>])]

RECURSIVE Gcd(_, _)
Gcd(a, b) == IF b = 0 THEN a ELSE Gcd(b, a % b)

\* conversion_worker, line 392: ((i + 1) / total_files) * 100 as the fraction
\* <<numerator, denominator>> in lowest terms, so that equal values are
\* equal; total_files is not zero here
Progress(i, total_files) ==
    LET g == Gcd((i + 1) * 100, total_files)
    IN  <<((i + 1) * 100) \div g, total_files \div g>>

\* A plausible slip: a failed file leaves the loop.
WorkerFileBreaksOnFailure(t) ==
    /\ t \in 1..Len(threads)
    /\ threads[t].pc = "loop"
    /\ \E run \in BatchRuns :
          LET w == Converted(threads[t], run)
              failed == Len(w.failed_conversions) > Len(threads[t].failed_conversions)
          IN  IF w.total_files = 0
              THEN /\ threads' = Ended(t)
                   /\ UNCHANGED progress_var
              ELSE /\ progress_var' = Progress(w.i, w.total_files)
                   /\ threads' = [threads EXCEPT ![t] =
                         [w EXCEPT !.i = @ + 1,
                                   !.emitted = Append(@, Progress(w.i, w.total_files)),
                                   !.pc = IF failed \/ w.i + 1 = Len(w.files)
                                          THEN "l405" ELSE "loop"]]
    /\ UNCHANGED <<recording, path, loc, conv, app, ffmpeg_path, selected_files,
                   output_directory, quality_var, conversion_in_progress,
                   convert_button, notice>>

\* conversion_worker, lines 368-394: one turn of the loop.  Dividing by a
\* total_files of zero raises ZeroDivisionError, which nothing catches: the
\* thread ends there.
WorkerFile(t) ==
    /\ t \in 1..Len(threads)
    /\ threads[t].pc = "loop"
    /\ \E run \in BatchRuns :
          LET w == Converted(threads[t], run)
          IN  IF w.total_files = 0
              THEN /\ threads' = Ended(t)
                   /\ UNCHANGED progress_var
              ELSE /\ progress_var' = Progress(w.i, w.total_files)
                   /\ threads' = [threads EXCEPT ![t] =
                         [w EXCEPT !.i = @ + 1,
                                   !.emitted = Append(@, Progress(w.i, w.total_files)),
                                   !.pc = IF w.i + 1 = Len(w.files)
                                          THEN "l405" ELSE "loop"]]
    /\ UNCHANGED <<recording, path, loc, conv, app, ffmpeg_path, selected_files,
                   output_directory, quality_var, conversion_in_progress,
                   convert_button, notice>>

\* conversion_worker, lines 396-408: the result box is dismissed and the
\* flag is reset; the locals are not used again
ResultDismissed(t) ==
    /\ t \in 1..Len(threads)
    /\ threads[t].pc = "l405"
    /\ conversion_in_progress' = FALSE
    /\ threads' = [threads EXCEPT ![t] = [NewThread EXCEPT !.pc = "l409"]]
    /\ UNCHANGED <<recording, path, loc, conv, app, ffmpeg_path, selected_files,
                   output_directory, quality_var, convert_button, progress_var,
                   notice>>

\* conversion_worker, line 409
Worker409(t) ==
    /\ t \in 1..Len(threads)
    /\ threads[t].pc = "l409"
    /\ convert_button' = "normal"
    /\ threads' = [threads EXCEPT ![t].pc = "l411"]
    /\ UNCHANGED <<recording, path, loc, conv, app, ffmpeg_path, selected_files,
                   output_directory, quality_var, conversion_in_progress,
                   progress_var, notice>>

\* conversion_worker, lines 410-411; the thread ends
Worker411(t) ==
    /\ t \in 1..Len(threads)
    /\ threads[t].pc = "l411"
    /\ progress_var' = Zero
    /\ threads' = Ended(t)
    /\ UNCHANGED <<recording, path, loc, conv, app, ffmpeg_path, selected_files,
                   output_directory, quality_var, conversion_in_progress,
                   convert_button, notice>>

conversion_worker(t) ==
    \/ Worker364(t)
    \/ Worker368(t)
    \/ WorkerFile(t)
    \/ ResultDismissed(t)
    \/ Worker409(t)
    \/ Worker411(t)

Init ==
    /\ path = Idle
    /\ loc = Idle
    /\ conv = Idle
    /\ GuiInit
    /\ recording = FALSE

Next ==
    \/ Construct
    \/ InstallationSucceeds
    \/ InstallationFails
    \/ select_files
    \/ clear_files
    \/ select_output_dir
    \/ choose_quality
    \/ start_conversion
    \/ \E t \in 1..MaxThreads : conversion_worker(t)

Spec == Init /\ [][Next]_vars

---------------------------------------------------------------------------
(* The window once __init__ has found ffmpeg on the search path and mainloop
   runs, with every batch's request and commands kept *)

RequestInit ==
    /\ path = Idle
    /\ loc = Idle
    /\ conv = Idle
    /\ app = "mainloop"
    /\ ffmpeg_path = "ffmpeg"
    /\ selected_files = <<>>
    /\ output_directory = <<>>
    /\ quality_var = "high"
    /\ conversion_in_progress = FALSE
    /\ convert_button = "normal"
    /\ progress_var = Zero
    /\ notice = "none"
    /\ threads = <<>>
    /\ recording = TRUE

NextRequest ==
    \/ select_files
    \/ clear_files
    \/ select_output_dir
    \/ choose_quality
    \/ start_conversion
    \/ \E t \in 1..MaxThreads : conversion_worker(t)

SpecRequest == RequestInit /\ [][NextRequest]_vars

---------------------------------------------------------------------------
(* Claims about the batch workflow *)

\* the threads that have yet to reset conversion_in_progress
Converting == {t \in 1..Len(threads) : threads[t].pc \in {"l364", "l368", "loop", "l405"}}

\* C1: when conversion_worker builds the result summary, the successful
\* count plus the number of failure entries equals the total it reports.
C1_CountsAddUp ==
    \A t \in 1..Len(threads) :
        threads[t].pc = "l405" =>
            threads[t].successful_conversions + Len(threads[t].failed_conversions)
                = threads[t].total_files

\* value of a progress fraction compared with a whole number
FracEq(f, n, d) == f[1] * d = n * f[2]

FracLess(f, g) == f[1] * g[2] < g[1] * f[2]

\* C2: for a batch of n >= 1 files the k-th progress value emitted is
\* (k / n) * 100, the values lie in [0,100] and increase strictly, and the
\* last value emitted for the batch is exactly 100.
C2_ProgressSequence ==
    \A t \in 1..Len(threads) :
        LET w == threads[t]
            n == Len(w.files)
            e == w.emitted
        IN  n >= 1 =>
              /\ \A k \in 1..Len(e) :
                    /\ FracEq(e[k], k * 100, n)
                    /\ 0 <= e[k][1] /\ e[k][1] <= 100 * e[k][2]
              /\ \A j, k \in 1..Len(e) : j < k => FracLess(e[j], e[k])
              /\ w.pc = "l405" => (Len(e) >= 1 /\ FracEq(e[Len(e)], 100, 1))

\* C3: a start request with an empty file list, or while the batch-running
\* flag is set, starts no thread, makes no invocation and leaves the flag,
\* the progress value, the button and every thread's counts and position
\* as they were.
C3_RejectedStartChangesNothing ==
    [][(start_conversion /\ (selected_files = <<>> \/ conversion_in_progress)) =>
          UNCHANGED <<conversion_in_progress, progress_var, threads, convert_button,
                      selected_files, output_directory, quality_var, ffmpeg_path,
                      app>>]_vars

\* C3 witness: a start request has been rejected with "Conversion In
\* Progress" while a batch is one file into its list.
C3_Witness ==
    /\ notice = "Conversion In Progress"
    /\ conversion_in_progress
    /\ \E t \in 1..Len(threads) :
          /\ threads[t].pc = "loop"
          /\ threads[t].i = 1
          /\ progress_var = threads[t].emitted[1]

\* C4: no two conversion_worker threads are alive at the same time.
C4_OneWorker == Len(threads) <= 1

RECURSIVE FailuresOf(_)
\* the failure entries a log calls for, in order
FailuresOf(log) ==
    IF log = <<>> THEN <<>>
    ELSE LET rest == FailuresOf(SubSeq(log, 1, Len(log) - 1))
             last == log[Len(log)]
         IN  IF last.success THEN rest
             ELSE Append(rest, <<basename(last.input), last.message>>)

\* C5: the converter is invoked once for each input of the batch, in input
\* order, whatever the outcomes of earlier files; the failure list names the
\* inputs whose invocation failed, in input order, and the successful count
\* is the number of inputs whose invocation succeeded; at the summary every
\* input has been invoked.
C5_EveryFileConverted ==
    \A t \in 1..Len(threads) :
        LET w == threads[t]
        IN  w.pc \in {"loop", "l405"} =>
              /\ Len(w.log) = w.i
              /\ w.i <= Len(w.files)
              /\ \A k \in 1..Len(w.log) : w.log[k].input = w.files[k]
              /\ w.failed_conversions = FailuresOf(w.log)
              /\ w.successful_conversions =
                    Cardinality({k \in 1..Len(w.log) : w.log[k].success})
              /\ w.pc = "l405" => Len(w.log) = Len(w.files)

\* C5 witness: a batch of two files whose first file failed has reached its
\* summary with the second file converted, one success counted and one
\* failure entry naming the first file.
C5_Witness ==
    \E t \in 1..Len(threads) :
        LET w == threads[t]
        IN  /\ w.pc = "l405"
            /\ Len(w.files) = 2
            /\ Len(w.log) = 2
            /\ ~w.log[1].success
            /\ w.log[2].success
            /\ w.successful_conversions = 1
            /\ Len(w.failed_conversions) = 1
            /\ w.failed_conversions[1][1] = basename(w.files[1])

\* C6: a batch that has started returns to idle.  The worker's steps being
\* taken as always completing, this holds as long as the batch-running flag
\* is never set without a live thread that has yet to reset it.
C6_RunningHasWorker == conversion_in_progress => Converting # {}

\* C7: while no executable has been resolved no batch is running and no
\* worker exists.
C7_NoToolNoWork ==
    ffmpeg_path = None => (~conversion_in_progress /\ threads = <<>>)

\* a step of the interactive thread: the constructor, a callback scheduled
\* with root.after, or a handler bound to a widget
InteractiveThread ==
    \/ Construct
    \/ InstallationSucceeds
    \/ InstallationFails
    \/ select_files
    \/ clear_files
    \/ select_output_dir
    \/ choose_quality
    \/ start_conversion

\* a step of some conversion_worker thread
WorkerThread == \E t \in 1..MaxThreads : conversion_worker(t)

\* C11 as stated: no step of the interactive thread assigns the
\* batch-running flag or the progress value; only worker threads write them.
C11_OnlyWorkerWrites ==
    [][InteractiveThread => UNCHANGED <<conversion_in_progress, progress_var>>]_vars

\* a step that writes the batch-running flag or the progress value, or
\* starts a thread
WritesShared ==
    \/ conversion_in_progress' # conversion_in_progress
    \/ progress_var' # progress_var
    \/ Len(threads') > Len(threads)

\* C11 as amended: the progress value is written by worker threads only.  The
\* batch-running flag is written by both threads: the interactive thread
\* sets it, in start_conversion and only when it accepts the request and
\* starts a worker, and no other handler writes it; a worker thread only
\* ever resets it.
C11_FlagSetByStart ==
    [][WritesShared =>
          \/ /\ selected_files # <<>>
             /\ ~conversion_in_progress
             /\ conversion_in_progress'
             /\ progress_var' = progress_var
             /\ Len(threads') = Len(threads) + 1
             /\ start_conversion
          \/ /\ Len(threads') <= Len(threads)
             /\ conversion_in_progress' # conversion_in_progress =>
                   ~conversion_in_progress'
             /\ WorkerThread
             /\ ~InteractiveThread
      ]_vars

\* C11 witness: start_conversion has set the flag and started a worker that
\* has not run a statement yet, while the progress value still holds what an
\* earlier batch's worker wrote last.
C11_Witness ==
    /\ conversion_in_progress
    /\ Len(threads) = 2
    /\ threads[2].pc = "l364"
    /\ threads[1].pc = "l409"
    /\ FracEq(progress_var, 100, 1)

\* the command that converts the k-th file of a request as it was made
RequestedCmd(req, k) ==
    <<ffmpeg_path, "-i", req.files[k]>> \o get_ffmpeg_params(req.quality)
        \o <<"-y", OutputPath(req.files[k], req.output_directory)>>

\* C12: whatever the handlers of the interactive thread do while a worker
\* runs, the commands the worker has launched are, in order, those for the
\* files selected when its batch was started, each with the quality and the
\* output directory in effect then; at the summary every file of that
\* selection has been converted.
C12_BatchKeepsRequest ==
    \A t \in 1..Len(threads) :
        LET w == threads[t]
        IN  w.pc \in {"loop", "l405"} =>
              /\ Len(w.log) <= Len(w.request.files)
              /\ \A k \in 1..Len(w.log) :
                    k <= Len(w.request.files) =>
                        w.log[k].cmd = RequestedCmd(w.request, k)
              /\ w.pc = "l405" => Len(w.log) = Len(w.request.files)

---------------------------------------------------------------------------
(* Claims about the single-file converter, the locator and the output path *)

\* C8: convert_video never raises and maps every end of an invocation to an
\* outcome: exit status zero is success; a nonzero exit status is failure
\* with the captured error stream as diagnostic; a failure to launch, an
\* unset executable path included, is failure with str(error) as diagnostic.
C8_ConvertVideoTotal ==
    conv.pc = "returned" =>
        LET r == conv.result
            launched == conv.exe # None /\ conv.run.kind = "exit"
        IN  /\ ~r.raised
            /\ (launched /\ conv.run.returncode = 0) =>
                   (r.success /\ r.message = "Success")
            /\ (launched /\ conv.run.returncode # 0) =>
                   (~r.success /\ r.message = conv.run.stderr)
            /\ (conv.exe # None /\ conv.run.kind # "exit") =>
                   (~r.success /\ r.message = StrOf(conv.run.kind))
            /\ conv.exe = None =>
                   (~r.success /\ r.message = StrOf("TypeError"))

\* C8 witness: a call with the executable path unset has returned failure
\* carrying the string form of the launch error.
C8_Witness ==
    /\ conv.pc = "returned"
    /\ conv.exe = None
    /\ ~conv.result.success
    /\ conv.result.message = StrOf("TypeError")

ProbeList(front) == IF front = "gui" THEN ffmpeg_paths ELSE cli_ffmpeg_paths

BundledCandidates == {"<script_dir>/ffmpeg/ffmpeg.exe", "<script_dir>/ffmpeg/ffmpeg"}

\* priority of a candidate as the code orders it: search path, bundled,
\* common install locations
CodeRank(c) == IF c = "ffmpeg" THEN 1 ELSE IF c \in BundledCandidates THEN 2 ELSE 3

\* priority of a candidate as the claim orders it: bundled, search path,
\* common install locations
ClaimedRank(c) == IF c \in BundledCandidates THEN 1 ELSE IF c = "ffmpeg" THEN 2 ELSE 3

Working(front) ==
    {k \in 1..Len(ProbeList(front)) : loc.run[ProbeList(front)[k]] = "ok"}

Uncaught(front) ==
    {k \in 1..Len(ProbeList(front)) :
        loc.run[ProbeList(front)[k]] \notin {"ok", "CalledProcessError", "FileNotFoundError"}}

\* some probe raises an error the loop does not catch before any probe succeeds
RaisesFirst(front) ==
    \E b \in Uncaught(front) : \A k \in Working(front) : b < k

\* C9 as stated: the locator resolves to the working candidate of highest
\* priority in the order bundled, search path, common install locations; in
\* particular the bundled binary wins over one on the search path.
C9_BundledFirst ==
    (loc.pc = "probed" /\ ~loc.raised) =>
        IF Working(loc.front) = {} THEN loc.path = None
        ELSE /\ loc.run[loc.path] = "ok"
             /\ \A k \in Working(loc.front) :
                    ClaimedRank(loc.path) <= ClaimedRank(ProbeList(loc.front)[k])

\* C9 as amended: the candidates are probed in the order search path,
\* bundled location, common install locations; the locator resolves to the
\* first candidate of its list whose version check succeeds, to none when
\* none succeeds, and raises with the path unset when a probe fails with an
\* error other than a nonzero exit or a missing file before any succeeds.
C9_SearchPathFirst ==
    loc.pc = "probed" =>
        LET list == ProbeList(loc.front)
            ok == Working(loc.front)
        IN  /\ loc.raised = RaisesFirst(loc.front)
            /\ loc.raised => loc.path = None
            /\ (~loc.raised /\ ok = {}) => loc.path = None
            /\ (~loc.raised /\ ok # {}) =>
                   /\ \E k \in ok : list[k] = loc.path /\ \A j \in ok : k <= j
                   /\ \A k \in ok : CodeRank(loc.path) <= CodeRank(list[k])
            /\ \A j, k \in 1..Len(list) : j <= k => CodeRank(list[j]) <= CodeRank(list[k])

\* C9 witness: a bundled binary and one on the search path both work and the
\* locator has resolved to the one on the search path.
C9_Witness ==
    /\ loc.pc = "probed"
    /\ loc.run["ffmpeg"] = "ok"
    /\ loc.run["<script_dir>/ffmpeg/ffmpeg"] = "ok"
    /\ loc.path = "ffmpeg"

ExpectedOutput(c) ==
    Place(IF c.override # <<>> THEN c.override ELSE c.dir, c.stem \o DotMp4)

\* C10: for every directory, stem and extension (any letter case) the output
\* path is the stem followed by lower-case ".mp4", in the override directory
\* when one is set and otherwise in the input's own directory, in the GUI
\* worker and in the command line front end alike.
C10_OutputPath ==
    path.pc = "derived" =>
        /\ path.gui = ExpectedOutput(path)
        /\ path.cli = ExpectedOutput(path)

\* C10 witness: override "/out" with input "/a/b/clip.mov" has given
\* "/out/clip.mp4".
C10_Witness ==
    /\ path.pc = "derived"
    /\ path.dir = <<"/", "a", "/", "b">>
    /\ path.stem = Clip
    /\ path.suffix = <<".", "m", "o", "v">>
    /\ path.override = <<"/", "o", "u", "t">>
    /\ path.gui = <<"/", "o", "u", "t", "/", "c", "l", "i", "p", ".", "m", "p", "4">>
    /\ path.cli = path.gui

====
